---------------------------- MODULE Spec2Model ----------------------------
(***************************************************************************)
(* Authentication and account lifecycle of the Harbor UI controllers:      *)
(* password login, the password-reset token workflow, the OAuth exchange   *)
(* with onboarding, and the user table they share.                         *)
(*                                                                         *)
(* Strings that are compared with one another as identities (usernames,    *)
(* e-mail addresses, principals, token subjects and issuers) are sequences *)
(* of one-character strings, so that the e-mail pattern and Sprintf can be *)
(* computed on them.  Passwords are plain strings.  A string returned by   *)
(* utils.GenerateRandomString is a positive integer n, "the n-th random    *)
(* string drawn"; 0 stands for the empty string.                           *)
(***************************************************************************)
EXTENDS Integers, Sequences, FiniteSets, TLC

\* ------------------------------------------------------------------ bounds

\* rows the user table may hold
MaxUsers == 2
\* strings utils.GenerateRandomString may hand out
MaxRand == 3

\* --------------------------------------------------------- program constants

StatusOK == 200
StatusFound == 302
StatusBadRequest == 400
StatusUnauthorized == 401
StatusForbidden == 403
StatusNotFound == 404
StatusInternalServerError == 500

\* the user id isUserResetable always lets through
BootstrapUserID == 1
\* models.User.HasAdminRole of an administrator
AdminRole == 1

\* common.DBAuth and a federated mode
DBAuth == "db_auth"
LDAPAuth == "ldap_auth"
AuthModes == {DBAuth, LDAPAuth}
\* config.AuthMode() returning an error
ModeErr == "error"

\* ------------------------------------------------------------ input domains

EmptyStr == << >>
AtSign == <<"@">>

Usernames == { <<"a">>, <<"b">> }
EmailA == <<"a", "@", "x", ".", "c", "c">>
EmailB == <<"b", "@", "x", ".", "c", "c">>
Emails == { EmailA, EmailB }
\* what a reset request may carry besides the addresses above
BadEmails == { <<"a", "@", "x">> }
UnknownEmail == <<"z", "@", "x", ".", "c", "c">>
Passwords == { "p1", "p2" }
NoPassword == ""
Handles == { "s1" }
RandStrings == 1..MaxRand
NoString == 0

\* ------------------------------------------------------ the e-mail pattern

Lower == {"a","b","c","d","e","f","g","h","i","j","k","l","m",
          "n","o","p","q","r","s","t","u","v","w","x","y","z"}
Upper == {"A","B","C","D","E","F","G","H","I","J","K","L","M",
          "N","O","P","Q","R","S","T","U","V","W","X","Y","Z"}
Digit == {"0","1","2","3","4","5","6","7","8","9"}
Letter == Lower \cup Upper
\* [a-zA-Z\-0-9]
LabelChar == Letter \cup Digit \cup {"-"}
\* the characters [^<>()[\]\\.,;:\s@\"] leaves out
AtomExcluded == {"<", ">", "(", ")", "[", "]", "\\", ".", ",", ";", ":",
                 " ", "\t", "\n", "\f", "\r", "@", "\""}

SubStr(s, i, j) == [k \in 1..(j - i + 1) |-> s[i + k - 1]]

RECURSIVE SplitOn(_, _)
\* the pieces of s between the occurrences of the character c
SplitOn(s, c) ==
    IF \A i \in 1..Len(s) : s[i] # c
    THEN << s >>
    ELSE LET i == CHOOSE k \in 1..Len(s) :
                      s[k] = c /\ \A m \in 1..(k - 1) : s[m] # c
         IN  << SubStr(s, 1, i - 1) >> \o SplitOn(SubStr(s, i + 1, Len(s)), c)

AllIn(s, set) == \A i \in 1..Len(s) : s[i] \in set

\* [^<>()[\]\\.,;:\s@\"]+(\.[^<>()[\]\\.,;:\s@\"]+)*
MatchDotAtom(s) ==
    \A piece \in { SplitOn(s, ".")[i] : i \in 1..Len(SplitOn(s, ".")) } :
        Len(piece) >= 1 /\ \A i \in 1..Len(piece) : piece[i] \notin AtomExcluded

\* \".+\"
MatchQuoted(s) ==
    /\ Len(s) >= 3
    /\ s[1] = "\""
    /\ s[Len(s)] = "\""
    /\ \A i \in 2..(Len(s) - 1) : s[i] # "\n"

\* \[[0-9]{1,3}\.[0-9]{1,3}\.[0-9]{1,3}\.[0-9]{1,3}\]
MatchIPLiteral(s) ==
    /\ Len(s) >= 2
    /\ s[1] = "["
    /\ s[Len(s)] = "]"
    /\ LET parts == SplitOn(SubStr(s, 2, Len(s) - 1), ".")
       IN  /\ Len(parts) = 4
           /\ \A i \in 1..4 : Len(parts[i]) \in 1..3 /\ AllIn(parts[i], Digit)

\* ([a-zA-Z\-0-9]+\.)+[a-zA-Z]{2,}
MatchHostname(s) ==
    LET parts == SplitOn(s, ".")
        n == Len(parts)
    IN  /\ n >= 2
        /\ \A i \in 1..(n - 1) : Len(parts[i]) >= 1 /\ AllIn(parts[i], LabelChar)
        /\ Len(parts[n]) >= 2
        /\ AllIn(parts[n], Letter)

\* regexp.MatchString of the address pattern
ValidEmail(s) ==
    \E i \in 1..Len(s) :
        /\ s[i] = "@"
        /\ MatchDotAtom(SubStr(s, 1, i - 1)) \/ MatchQuoted(SubStr(s, 1, i - 1))
        /\ \/ MatchIPLiteral(SubStr(s, i + 1, Len(s)))
           \/ MatchHostname(SubStr(s, i + 1, Len(s)))

\* the addresses a reset request may carry, and the pattern's verdict on each
ResetEmails == Emails \cup BadEmails \cup { UnknownEmail }
PatternVerdict == [e \in ResetEmails |-> ValidEmail(e)]

\* regexp.MatchString(pattern, email)
MatchString(email) ==
    IF email \in DOMAIN PatternVerdict THEN PatternVerdict[email] ELSE ValidEmail(email)

\* ------------------------------------------------------------ the user table

\* a row of the user table (models.User)
UserRow(id, username, email, realname, password, salt, admin, uuid) ==
    [UserID |-> id, Username |-> username, Email |-> email, Realname |-> realname,
     Password |-> password, Salt |-> salt, HasAdminRole |-> admin, ResetUUID |-> uuid]

\* a nil *models.User
NilUser == [UserID |-> 0]

\* a models.User carrying only query criteria
Query(id, username, email, uuid) ==
    [UserID |-> id, Username |-> username, Email |-> email, ResetUUID |-> uuid]

\* utils.Encrypt: a one-way function of the plaintext and the salt, without collisions
Encrypt(password, salt) == << password, salt >>

\* the password column of a row that was created without a local password
NoHash == << >>

Rows(us) == { us[i] : i \in 1..Len(us) }

\* dao.GetUser: the row that matches every non-empty field of the criteria
GetUser(us, q) ==
    LET hit(u) == /\ (q.UserID # 0 => u.UserID = q.UserID)
                  /\ (q.Username # EmptyStr => u.Username = q.Username)
                  /\ (q.ResetUUID # NoString => u.ResetUUID = q.ResetUUID)
                  /\ (q.Email # EmptyStr => u.Email = q.Email)
        found == { i \in 1..Len(us) : hit(us[i]) }
    IN  IF found = {} THEN NilUser
        ELSE us[CHOOSE i \in found : \A j \in found : i <= j]

\* the uniqueness constraints of the user table, on username and on email
ViolatesUnique(us, username, email) ==
    \E u \in Rows(us) : u.Username = username \/ u.Email = email

\* the insert statement: the table with the row appended under the next id
InsertRow(us, username, email, realname, password, salt, admin) ==
    Append(us, UserRow(Len(us) + 1, username, email, realname, password, salt,
                       admin, NoString))

\* dao.UpdateUserResetUUID: update user set reset_uuid = ? where email = ?
UpdateUserResetUUID(us, email, uuid) ==
    [i \in 1..Len(us) |->
        IF us[i].Email = email THEN [us[i] EXCEPT !.ResetUUID = uuid] ELSE us[i]]

\* dao.ResetUserPassword: one statement that stores the hash of the new password
\* under a new salt and clears the token, on the rows holding the token
ResetUserPassword(us, uuid, password, salt) ==
    [i \in 1..Len(us) |->
        IF us[i].ResetUUID = uuid
        THEN [us[i] EXCEPT !.Password = Encrypt(password, salt), !.Salt = salt,
                           !.ResetUUID = NoString]
        ELSE us[i]]

\* auth.Login: look the principal up as a username or an e-mail address and
\* verify the password against the stored salt and hash
AuthLogin(us, principal, password) ==
    LET found == { i \in 1..Len(us) :
                     us[i].Username = principal \/ us[i].Email = principal }
        u == us[CHOOSE i \in found : \A j \in found : i <= j]
    IN  IF found = {} THEN NilUser
        ELSE IF u.Password = Encrypt(password, u.Salt) THEN u
        ELSE NilUser

\* ------------------------------------------------------------------ sessions

EmptySession == [k \in {} |-> 0]

\* beego's SetSession on one key of a session
SetSession(s, key, val) ==
    [k \in (DOMAIN s) \cup {key} |-> IF k = key THEN val ELSE s[k]]

\* ------------------------------------------------------------------- state

VARIABLES
    users,      \* the user table, rows in insertion order (the row's index is its id)
    session,    \* session handle -> the session's key/value mapping
    authMode,   \* the configured authentication mode
    rand,       \* how many strings utils.GenerateRandomString has returned
    mailbox,    \* the reset messages the mail server accepted: [to, uuid]
    procs,      \* the requests in flight when handlers run concurrently
    req,        \* the last request served, with its inputs
    resp,       \* what the last request returned
    granted,    \* handle -> a Login or Oauth on it passed every check since the last LogOut
    written,    \* user id -> the reset tokens stored for the user, in the order of the writes
    secret      \* user id -> the plaintext behind the stored hash and how it got there

vars == << users, session, authMode, rand, mailbox, procs, req, resp, granted,
           written, secret >>

\* no call of isUserResetable
NoCall == [uid |-> 0, mode |-> "", result |-> FALSE, called |-> FALSE]

\* no local password was ever set
NoSecret == [pw |-> NoPassword, by |-> "none", old |-> NoPassword, uuid |-> NoString]

\* the requests that may be in flight together
NProcs == 3
Procs == 1..NProcs
Idle == [pc |-> "idle", op |-> "none"]

Init ==
    /\ users = << >>
    /\ session = [h \in Handles |-> EmptySession]
    /\ authMode = DBAuth
    /\ rand = 0
    /\ mailbox = {}
    /\ procs = [p \in Procs |-> Idle]
    /\ req = [op |-> "none"]
    /\ resp = [code |-> 0, body |-> ""]
    /\ granted = [h \in Handles |-> FALSE]
    /\ written = [i \in 1..MaxUsers |-> << >>]
    /\ secret = [i \in 1..MaxUsers |-> NoSecret]

\* ---------------------------------------------------------------- Register

\* a Register that hashes the password before the salt is drawn
RegisterExec_Unsalted(us, salt, username, email, realname, password, admin, fail) ==
    IF ViolatesUnique(us, username, email)
    THEN [userID |-> 0, err |-> "duplicate", users |-> us]
    ELSE IF fail = "exec" THEN [userID |-> 0, err |-> "db", users |-> us]
    ELSE [userID |-> Len(us) + 1, err |-> "",
          users |-> InsertRow(us, username, email, realname,
                              Encrypt(password, NoString), salt, admin)]

\* a Register whose insert meets no uniqueness constraint
RegisterExec_Unconstrained(us, salt, username, email, realname, password, admin, fail) ==
    IF fail = "exec" THEN [userID |-> 0, err |-> "db", users |-> us]
    ELSE [userID |-> Len(us) + 1, err |-> "",
          users |-> InsertRow(us, username, email, realname, Encrypt(password, salt),
                              salt, admin)]

\* what Register returns and leaves in the table once the statement is prepared
\* and the salt drawn: the insert may be refused by a uniqueness constraint or
\* fail otherwise
RegisterExec(us, salt, username, email, realname, password, admin, fail) ==
    IF ViolatesUnique(us, username, email)
    THEN [userID |-> 0, err |-> "duplicate", users |-> us]
    ELSE IF fail = "exec" THEN [userID |-> 0, err |-> "db", users |-> us]
    ELSE [userID |-> Len(us) + 1, err |-> "",
          users |-> InsertRow(us, username, email, realname, Encrypt(password, salt),
                              salt, admin)]

\* the record of the plaintexts, after Register returned r for `password`
Registered(sec, r, password) ==
    IF r.err = ""
    THEN [sec EXCEPT ![r.userID] = [pw |-> password, by |-> "register",
                                    old |-> NoPassword, uuid |-> NoString]]
    ELSE sec

Register(username, email, password, admin, fail) ==
    /\ req' = [op |-> "Register", username |-> username, email |-> email,
               password |-> password, admin |-> admin, fail |-> fail]
    /\ IF fail = "prepare"
       THEN /\ resp' = [code |-> 0, body |-> "db", userID |-> 0]
            /\ UNCHANGED << users, rand, secret >>
       ELSE LET r == RegisterExec(users, rand + 1, username, email, EmptyStr,
                                  password, admin, fail)
            IN  /\ rand < MaxRand
                /\ Len(r.users) <= MaxUsers
                /\ rand' = rand + 1
                /\ users' = r.users
                /\ secret' = Registered(secret, r, password)
                /\ resp' = [code |-> 0, body |-> r.err, userID |-> r.userID]
    /\ UNCHANGED << session, authMode, mailbox, procs, granted, written >>

\* ------------------------------------------------------------ Login, LogOut

\* Login stops with 401 when auth.Login returned an error or no user
LoginAborts(user, err) == err \/ user = NilUser

\* the three SetSession calls that issue a session for a verified user
IssueSession(s, user) ==
    SetSession(SetSession(SetSession(s, "userId", user.UserID),
                          "username", user.Username),
               "isSysAdmin", user.HasAdminRole = AdminRole)

Login(h, principal, password, err) ==
    LET user == IF err THEN NilUser ELSE AuthLogin(users, principal, password)
        passed == ~err /\ AuthLogin(users, principal, password) # NilUser
    IN  /\ req' = [op |-> "Login", h |-> h, principal |-> principal,
                   password |-> password, err |-> err]
        /\ IF LoginAborts(user, err)
           THEN /\ resp' = [code |-> StatusUnauthorized, body |-> ""]
                /\ session' = session
           ELSE /\ resp' = [code |-> StatusOK, body |-> ""]
                /\ session' = [session EXCEPT ![h] = IssueSession(@, user)]
        /\ granted' = [granted EXCEPT ![h] = @ \/ passed]
        /\ UNCHANGED << users, authMode, rand, mailbox, procs, written, secret >>

\* a LogOut that leaves the session's mapping in place
DestroySession_Kept(s) == s

\* DestroySession: the handle's whole mapping is removed
DestroySession(s) == EmptySession

LogOut(h) ==
    /\ req' = [op |-> "LogOut", h |-> h]
    /\ resp' = [code |-> StatusOK, body |-> ""]
    /\ session' = [session EXCEPT ![h] = DestroySession(@)]
    /\ granted' = [granted EXCEPT ![h] = FALSE]
    /\ UNCHANGED << users, authMode, rand, mailbox, procs, written, secret >>

\* ------------------------------------------------------------ reset workflow

\* an isUserResetable that lets every user through
isUserResetable_AnyUser(u, mode) == u # NilUser

\* an isUserResetable that looks at the user id before it reads the mode
isUserResetable_IdFirst(u, mode) ==
    IF u = NilUser THEN FALSE
    ELSE IF u.UserID = BootstrapUserID THEN TRUE
    ELSE mode = DBAuth

\* isUserResetable, given what config.AuthMode() returned (a mode, or ModeErr)
isUserResetable(u, mode) ==
    IF u = NilUser THEN FALSE
    ELSE IF mode = ModeErr THEN FALSE
    ELSE IF mode = DBAuth THEN TRUE
    ELSE u.UserID = BootstrapUserID

\* the record of a call of isUserResetable
Called(u, mode) ==
    [uid |-> u.UserID, mode |-> mode, result |-> isUserResetable(u, mode),
     called |-> TRUE]

\* the places where SendResetEmail can fail for a reason outside the program
SendFailures == {"none", "getuser", "update", "template", "endpoint", "execute",
                 "emailcfg", "send"}

\* a SendResetEmail that looks the user up before it checks the address
SendResetEmailChecks_LookupFirst(us, email, mode, fail) ==
    LET u == GetUser(us, Query(0, EmptyStr, email, NoString))
    IN  IF fail = "getuser"
        THEN [code |-> StatusInternalServerError, body |-> "Internal error.",
              check |-> NoCall]
        ELSE IF u = NilUser
        THEN [code |-> StatusNotFound, body |-> "email_does_not_exist",
              check |-> NoCall]
        ELSE IF ~MatchString(email)
        THEN [code |-> StatusBadRequest, body |-> "invalid email", check |-> NoCall]
        ELSE IF ~isUserResetable(u, mode)
        THEN [code |-> StatusForbidden, body |-> "Forbidden", check |-> Called(u, mode)]
        ELSE [code |-> 0, body |-> "", check |-> Called(u, mode)]

\* SendResetEmail's checks before a token is generated: the response that ends
\* the request there, or code 0 to go on
SendResetEmailChecks(us, email, mode, fail) ==
    LET u == GetUser(us, Query(0, EmptyStr, email, NoString))
    IN  IF ~MatchString(email)
        THEN [code |-> StatusBadRequest, body |-> "invalid email", check |-> NoCall]
        ELSE IF fail = "getuser"
        THEN [code |-> StatusInternalServerError, body |-> "Internal error.",
              check |-> NoCall]
        ELSE IF u = NilUser
        THEN [code |-> StatusNotFound, body |-> "email_does_not_exist",
              check |-> NoCall]
        ELSE IF ~isUserResetable(u, mode)
        THEN [code |-> StatusForbidden, body |-> "Forbidden", check |-> Called(u, mode)]
        ELSE [code |-> 0, body |-> "", check |-> Called(u, mode)]

\* a dispatch whose failures are not reported
SendResetEmailDispatch_Swallowed(fail) == [code |-> StatusOK, body |-> ""]

\* SendResetEmail's steps after the token was stored: building and sending the mail
SendResetEmailDispatch(fail) ==
    IF fail = "template"
    THEN [code |-> StatusInternalServerError, body |-> "template error"]
    ELSE IF fail = "endpoint"
    THEN [code |-> StatusInternalServerError, body |-> "Internal Server Error"]
    ELSE IF fail \in {"execute", "emailcfg"}
    THEN [code |-> StatusInternalServerError, body |-> "internal_error"]
    ELSE IF fail = "send"
    THEN [code |-> StatusInternalServerError, body |-> "send_email_failed"]
    ELSE [code |-> StatusOK, body |-> ""]

\* a SendResetEmail that leaves a pending token in place
StoreResetUUID_KeepPending(us, email, uuid) ==
    [i \in 1..Len(us) |->
        IF us[i].Email = email /\ us[i].ResetUUID = NoString
        THEN [us[i] EXCEPT !.ResetUUID = uuid]
        ELSE us[i]]

\* the table after SendResetEmail stored the token it generated
StoreResetUUID(us, email, uuid) == UpdateUserResetUUID(us, email, uuid)

\* the record of the tokens written, after `uuid` was stored under `email`
Wrote(w, us, email, uuid) ==
    [i \in DOMAIN w |->
        IF i <= Len(us) /\ us[i].Email = email THEN Append(w[i], uuid) ELSE w[i]]

\* the mail server's messages after a dispatch that ended with response r
Delivered(mb, r, email, uuid) ==
    IF r.code = StatusOK THEN mb \cup {[to |-> email, uuid |-> uuid]} ELSE mb

SendResetEmail(email, mode, fail) ==
    LET early == SendResetEmailChecks(users, email, mode, fail)
        uuid == rand + 1
        sent == SendResetEmailDispatch(fail)
    IN  /\ req' = [op |-> "SendResetEmail", email |-> email, fail |-> fail]
        /\ IF early.code # 0
           THEN /\ resp' = early
                /\ UNCHANGED << users, rand, mailbox, written >>
           ELSE /\ rand < MaxRand
                /\ rand' = uuid
                /\ IF fail = "update"
                   THEN /\ resp' = [code |-> StatusInternalServerError,
                                    body |-> "Internal Server Error",
                                    check |-> early.check]
                        /\ UNCHANGED << users, mailbox, written >>
                   ELSE /\ users' = StoreResetUUID(users, email, uuid)
                        /\ written' = Wrote(written, users, email, uuid)
                        /\ resp' = [code |-> sent.code, body |-> sent.body,
                                    check |-> early.check]
                        /\ mailbox' = Delivered(mailbox, sent, email, uuid)
        /\ UNCHANGED << session, authMode, procs, granted, secret >>

\* the places where ResetPassword can fail for a reason outside the program
ResetFailures == {"none", "getuser", "reset"}

\* a ResetPassword that does not check eligibility again
ResetPasswordChecks_NoRecheck(us, uuid, password, mode, fail) ==
    LET user == GetUser(us, Query(0, EmptyStr, EmptyStr, uuid))
    IN  IF uuid = NoString
        THEN [code |-> StatusBadRequest, body |-> "Reset uuid is blank.",
              check |-> NoCall]
        ELSE IF fail = "getuser"
        THEN [code |-> StatusInternalServerError, body |-> "Internal error.",
              check |-> NoCall]
        ELSE IF user = NilUser
        THEN [code |-> StatusBadRequest, body |-> "User does not exist",
              check |-> NoCall]
        ELSE IF password = NoPassword
        THEN [code |-> StatusBadRequest, body |-> "password_is_required",
              check |-> NoCall]
        ELSE IF fail = "reset"
        THEN [code |-> StatusInternalServerError, body |-> "Internal error.",
              check |-> NoCall]
        ELSE [code |-> 0, body |-> "", check |-> NoCall]

\* a ResetPassword that looks at the password before the eligibility
ResetPasswordChecks_PasswordFirst(us, uuid, password, mode, fail) ==
    LET user == GetUser(us, Query(0, EmptyStr, EmptyStr, uuid))
    IN  IF uuid = NoString
        THEN [code |-> StatusBadRequest, body |-> "Reset uuid is blank.",
              check |-> NoCall]
        ELSE IF fail = "getuser"
        THEN [code |-> StatusInternalServerError, body |-> "Internal error.",
              check |-> NoCall]
        ELSE IF user = NilUser
        THEN [code |-> StatusBadRequest, body |-> "User does not exist",
              check |-> NoCall]
        ELSE IF password = NoPassword
        THEN [code |-> StatusBadRequest, body |-> "password_is_required",
              check |-> NoCall]
        ELSE IF ~isUserResetable(user, mode)
        THEN [code |-> StatusForbidden, body |-> "Forbidden",
              check |-> Called(user, mode)]
        ELSE IF fail = "reset"
        THEN [code |-> StatusInternalServerError, body |-> "Internal error.",
              check |-> Called(user, mode)]
        ELSE [code |-> 0, body |-> "", check |-> Called(user, mode)]

\* ResetPassword's checks before the password is written: the response that ends
\* the request there, or code 0 to go on
ResetPasswordChecks(us, uuid, password, mode, fail) ==
    LET user == GetUser(us, Query(0, EmptyStr, EmptyStr, uuid))
    IN  IF uuid = NoString
        THEN [code |-> StatusBadRequest, body |-> "Reset uuid is blank.",
              check |-> NoCall]
        ELSE IF fail = "getuser"
        THEN [code |-> StatusInternalServerError, body |-> "Internal error.",
              check |-> NoCall]
        ELSE IF user = NilUser
        THEN [code |-> StatusBadRequest, body |-> "User does not exist",
              check |-> NoCall]
        ELSE IF ~isUserResetable(user, mode)
        THEN [code |-> StatusForbidden, body |-> "Forbidden",
              check |-> Called(user, mode)]
        ELSE IF password = NoPassword
        THEN [code |-> StatusBadRequest, body |-> "password_is_required",
              check |-> Called(user, mode)]
        ELSE IF fail = "reset"
        THEN [code |-> StatusInternalServerError, body |-> "Internal error.",
              check |-> Called(user, mode)]
        ELSE [code |-> 0, body |-> "", check |-> Called(user, mode)]

\* a ResetPassword that hands the user on without the new password
ResetPasswordStore_OldPassword(us, uuid, password, salt) ==
    [i \in 1..Len(us) |->
        IF us[i].ResetUUID = uuid THEN [us[i] EXCEPT !.ResetUUID = NoString] ELSE us[i]]

\* the table after ResetPassword set user.Password and called dao.ResetUserPassword
ResetPasswordStore(us, uuid, password, salt) ==
    ResetUserPassword(us, uuid, password, salt)

\* the record of the plaintexts, after the holder of `uuid` got `password`
Redeemed(sec, us, uuid, password) ==
    [i \in DOMAIN sec |->
        IF i <= Len(us) /\ us[i].ResetUUID = uuid
        THEN [pw |-> password, by |-> "reset", old |-> sec[i].pw, uuid |-> uuid]
        ELSE sec[i]]

ResetPassword(uuid, password, mode, fail) ==
    LET early == ResetPasswordChecks(users, uuid, password, mode, fail)
    IN  /\ req' = [op |-> "ResetPassword", uuid |-> uuid, password |-> password,
                   fail |-> fail]
        /\ IF early.code # 0
           THEN /\ resp' = early
                /\ UNCHANGED << users, rand, secret >>
           ELSE /\ rand < MaxRand
                /\ rand' = rand + 1
                /\ users' = ResetPasswordStore(users, uuid, password, rand + 1)
                /\ secret' = Redeemed(secret, users, uuid, password)
                /\ resp' = [code |-> StatusOK, body |-> "", check |-> early.check]
        /\ UNCHANGED << session, authMode, mailbox, procs, granted, written >>

\* an administrator changes the configured authentication mode
SetAuthMode(m) ==
    /\ m # authMode
    /\ authMode' = m
    /\ req' = [op |-> "SetAuthMode", mode |-> m]
    /\ resp' = [code |-> 0, body |-> ""]
    /\ UNCHANGED << users, session, rand, mailbox, procs, granted, written, secret >>

\* -------------------------------------------------------------------- Oauth

SigningMethodHS256 == "HS256"
SigningMethods == {SigningMethodHS256, "HS512", "none"}
Subjects == { <<"a">>, <<"c">> }
Issuers == { <<"x", ".", "c", "c">> }

\* the access tokens the provider's token endpoint may return: the header's
\* algorithm, whether the signature verifies under that algorithm with the key
\* the key function returns and the standard claims are valid, and the subject
\* and issuer claims
AccessTokens ==
    [alg : SigningMethods, verifies : BOOLEAN, sub : Subjects, iss : Issuers]

\* no token: the exchange was not made or failed
NoToken == [alg |-> "-"]

\* the places where Oauth can fail for a reason outside the program
OauthEarlyFailures == {"certpool", "config", "exchange"}
OauthLateFailures == {"none", "onboard"}

\* a key function that returns the key whatever the signing method
KeyFuncOK_AnyMethod(alg) == TRUE

\* the key function handed to ParseWithClaims: it refuses every signing method
\* but HS256
KeyFuncOK(alg) == alg = SigningMethodHS256

\* jwtgo.ParseWithClaims: the key function accepts the method, and the signature
\* and the claims are valid
ParseWithClaims(tok) == KeyFuncOK(tok.alg) /\ tok.verifies

\* an address put together the other way round
SprintfEmail_IssuerFirst(sub, iss) == iss \o AtSign \o sub

\* fmt.Sprintf("%s@%s", subject, issuer)
SprintfEmail(sub, iss) == sub \o AtSign \o iss

\* dao.OnBoardUser: the row with the username if there is one, else a new row
\* without a local password; the insert is subject to the table's constraints
OnBoardUser(us, username, email) ==
    LET old == GetUser(us, Query(0, username, EmptyStr, NoString))
    IN  IF old # NilUser THEN [err |-> FALSE, users |-> us, user |-> old]
        ELSE IF ViolatesUnique(us, username, email)
        THEN [err |-> TRUE, users |-> us, user |-> NilUser]
        ELSE LET new == InsertRow(us, username, email, EmptyStr, NoHash, NoString, 0)
             IN  [err |-> FALSE, users |-> new, user |-> new[Len(new)]]

\* createUser
createUser(us, username, email, fail) ==
    IF fail = "onboard" THEN [err |-> TRUE, users |-> us, user |-> NilUser]
    ELSE OnBoardUser(us, username, email)

\* Oauth's checks before createUser: the response that ends the request there,
\* or code 0 to go on
OauthChecks(tok, fail) ==
    IF fail = "certpool"
    THEN [code |-> StatusInternalServerError, body |-> "SSL error"]
    ELSE IF fail = "config"
    THEN [code |-> StatusInternalServerError, body |-> "error loading config"]
    ELSE IF fail = "exchange"
    THEN [code |-> StatusInternalServerError, body |-> "error retrieving oauth token"]
    ELSE IF ~ParseWithClaims(tok)
    THEN [code |-> StatusInternalServerError, body |-> "error parsing oauth response"]
    ELSE [code |-> 0, body |-> ""]

\* a request that passed every check of the OAuth exchange
OauthPassed(us, tok, fail) ==
    /\ fail \notin OauthEarlyFailures
    /\ tok.alg = SigningMethodHS256
    /\ tok.verifies
    /\ ~createUser(us, tok.sub, SprintfEmail(tok.sub, tok.iss), fail).err

Oauth(h, tok, fail) ==
    LET early == OauthChecks(tok, fail)
        made == createUser(users, tok.sub, SprintfEmail(tok.sub, tok.iss), fail)
    IN  /\ req' = [op |-> "Oauth", h |-> h, tok |-> tok, fail |-> fail]
        /\ granted' = [granted EXCEPT ![h] = @ \/ OauthPassed(users, tok, fail)]
        /\ IF early.code # 0
           THEN /\ resp' = early
                /\ UNCHANGED << users, session >>
           ELSE IF made.err
           THEN /\ resp' = [code |-> StatusInternalServerError, body |-> ""]
                /\ UNCHANGED << users, session >>
           ELSE /\ Len(made.users) <= MaxUsers
                /\ users' = made.users
                /\ session' = [session EXCEPT ![h] = IssueSession(@, made.user)]
                /\ resp' = [code |-> StatusFound, body |-> "/harbor"]
        /\ UNCHANGED << authMode, rand, mailbox, procs, written, secret >>

\* ------------------------------------------------------------ specification

Principals == Usernames \cup Emails \cup { <<"c">>, UnknownEmail }
Next ==
    \/ \E username \in Usernames, email \in Emails, password \in Passwords,
          admin \in {0, AdminRole}, fail \in {"none", "prepare", "exec"} :
          Register(username, email, password, admin, fail)
    \/ \E h \in Handles, principal \in Principals,
          password \in Passwords \cup {NoPassword}, err \in BOOLEAN :
          Login(h, principal, password, err)
    \/ \E h \in Handles : LogOut(h)
    \/ \E email \in ResetEmails, mode \in {authMode, ModeErr}, fail \in SendFailures :
          SendResetEmail(email, mode, fail)
    \/ \E uuid \in RandStrings \cup {NoString}, password \in Passwords \cup {NoPassword},
          mode \in {authMode, ModeErr}, fail \in ResetFailures :
          ResetPassword(uuid, password, mode, fail)
    \/ \E h \in Handles, tok \in AccessTokens, fail \in OauthLateFailures :
          Oauth(h, tok, fail)
    \/ \E h \in Handles, fail \in OauthEarlyFailures : Oauth(h, NoToken, fail)
    \/ \E m \in AuthModes : SetAuthMode(m)

Spec == Init /\ [][Next]_vars

\* registration, login, logout and the OAuth exchange, with every input
NextAuth ==
    \/ \E username \in Usernames, email \in Emails, password \in Passwords,
          admin \in {0, AdminRole}, fail \in {"none", "prepare", "exec"} :
          Register(username, email, password, admin, fail)
    \/ \E h \in Handles, principal \in Principals,
          password \in Passwords \cup {NoPassword}, err \in BOOLEAN :
          Login(h, principal, password, err)
    \/ \E h \in Handles : LogOut(h)
    \/ \E h \in Handles, tok \in AccessTokens, fail \in OauthLateFailures :
          Oauth(h, tok, fail)
    \/ \E h \in Handles, fail \in OauthEarlyFailures : Oauth(h, NoToken, fail)

SpecAuth == Init /\ [][NextAuth]_vars

\* the reset workflow with every input, between registrations and logins that
\* meet no failure of the store
NextReset ==
    \/ \E username \in Usernames, email \in Emails, password \in Passwords :
          Register(username, email, password, 0, "none")
    \/ \E h \in Handles, principal \in Usernames \cup Emails, password \in Passwords :
          Login(h, principal, password, FALSE)
    \/ \E email \in ResetEmails, mode \in {authMode, ModeErr}, fail \in SendFailures :
          SendResetEmail(email, mode, fail)
    \/ \E uuid \in RandStrings \cup {NoString}, password \in Passwords \cup {NoPassword},
          mode \in {authMode, ModeErr}, fail \in ResetFailures :
          ResetPassword(uuid, password, mode, fail)
    \/ \E m \in AuthModes : SetAuthMode(m)

SpecReset == Init /\ [][NextReset]_vars

\* ------------------------------------------------- handlers run concurrently

(***************************************************************************)
(* Each request in flight is a process that takes its handler's steps one  *)
(* access to the shared state at a time: a statement on the user table, a  *)
(* draw from the random generator, the hand-over of a mail.  A process     *)
(* serves one request.                                                     *)
(***************************************************************************)

Finish(p, result) == procs' = [procs EXCEPT ![p] = result @@ [pc |-> "done"] @@ @]

\* Register up to the salt: the statement is prepared and the salt drawn
RegisterBegin(p, username, email, password, admin, fail) ==
    /\ procs[p].pc = "idle"
    /\ LET call == [op |-> "Register", username |-> username, email |-> email,
                    password |-> password, admin |-> admin, fail |-> fail]
       IN  IF fail = "prepare"
           THEN /\ procs' = [procs EXCEPT ![p] =
                               call @@ [pc |-> "done", userID |-> 0, err |-> "db"]]
                /\ rand' = rand
           ELSE /\ rand < MaxRand
                /\ rand' = rand + 1
                /\ procs' = [procs EXCEPT ![p] =
                               call @@ [pc |-> "exec", salt |-> rand + 1]]
    /\ UNCHANGED << users, session, authMode, mailbox, req, resp, granted, written,
                    secret >>

\* Register's insert and what it returns
RegisterInsert(p) ==
    /\ procs[p].pc = "exec"
    /\ LET c == procs[p]
           r == RegisterExec(users, c.salt, c.username, c.email, EmptyStr,
                             c.password, c.admin, c.fail)
       IN  /\ Len(r.users) <= MaxUsers
           /\ users' = r.users
           /\ secret' = Registered(secret, r, c.password)
           /\ Finish(p, [userID |-> r.userID, err |-> r.err])
    /\ UNCHANGED << session, authMode, rand, mailbox, req, resp, granted, written >>

\* SendResetEmail up to the eligibility check
SendBegin(p, email, mode, fail) ==
    /\ procs[p].pc = "idle"
    /\ LET call == [op |-> "SendResetEmail", email |-> email, fail |-> fail]
           early == SendResetEmailChecks(users, email, mode, fail)
       IN  procs' = [procs EXCEPT ![p] =
                       IF early.code # 0
                       THEN call @@ [pc |-> "done", code |-> early.code,
                                     body |-> early.body]
                       ELSE call @@ [pc |-> "generate"]]
    /\ UNCHANGED << users, session, authMode, rand, mailbox, req, resp, granted,
                    written, secret >>

\* SendResetEmail draws the token
SendGenerate(p) ==
    /\ procs[p].pc = "generate"
    /\ rand < MaxRand
    /\ rand' = rand + 1
    /\ procs' = [procs EXCEPT ![p] = [pc |-> "store", uuid |-> rand + 1] @@ @]
    /\ UNCHANGED << users, session, authMode, mailbox, req, resp, granted, written,
                    secret >>

\* SendResetEmail stores the token
SendStore(p) ==
    /\ procs[p].pc = "store"
    /\ IF procs[p].fail = "update"
       THEN /\ Finish(p, [code |-> StatusInternalServerError,
                          body |-> "Internal Server Error"])
            /\ UNCHANGED << users, written >>
       ELSE /\ users' = StoreResetUUID(users, procs[p].email, procs[p].uuid)
            /\ written' = Wrote(written, users, procs[p].email, procs[p].uuid)
            /\ procs' = [procs EXCEPT ![p] = [pc |-> "dispatch"] @@ @]
    /\ UNCHANGED << session, authMode, rand, mailbox, req, resp, granted, secret >>

\* SendResetEmail builds the message and hands it to the mail server
SendDispatch(p) ==
    /\ procs[p].pc = "dispatch"
    /\ LET sent == SendResetEmailDispatch(procs[p].fail)
       IN  /\ mailbox' = Delivered(mailbox, sent, procs[p].email, procs[p].uuid)
           /\ Finish(p, [code |-> sent.code, body |-> sent.body])
    /\ UNCHANGED << users, session, authMode, rand, req, resp, granted, written,
                    secret >>

\* ResetPassword up to the new password: the lookup by token and the checks
RedeemBegin(p, uuid, password, mode, fail) ==
    /\ procs[p].pc = "idle"
    /\ LET call == [op |-> "ResetPassword", uuid |-> uuid, password |-> password,
                    fail |-> fail]
           early == ResetPasswordChecks(users, uuid, password, mode, fail)
       IN  procs' = [procs EXCEPT ![p] =
                       IF early.code # 0
                       THEN call @@ [pc |-> "done", code |-> early.code,
                                     body |-> early.body]
                       ELSE call @@ [pc |-> "reset"]]
    /\ UNCHANGED << users, session, authMode, rand, mailbox, req, resp, granted,
                    written, secret >>

\* ResetPassword's statement on the table
RedeemStore(p) ==
    /\ procs[p].pc = "reset"
    /\ rand < MaxRand
    /\ rand' = rand + 1
    /\ users' = ResetPasswordStore(users, procs[p].uuid, procs[p].password, rand + 1)
    /\ secret' = Redeemed(secret, users, procs[p].uuid, procs[p].password)
    /\ Finish(p, [code |-> StatusOK, body |-> ""])
    /\ UNCHANGED << session, authMode, mailbox, req, resp, granted, written >>

NextConc ==
    \/ \E p \in Procs, username \in Usernames, email \in Emails,
          fail \in {"none", "prepare", "exec"} :
          RegisterBegin(p, username, email, "p1", 0, fail)
    \/ \E p \in Procs : RegisterInsert(p)
    \/ \E p \in Procs, email \in Emails \cup {UnknownEmail},
          fail \in {"none", "update", "send"} :
          SendBegin(p, email, authMode, fail)
    \/ \E p \in Procs : SendGenerate(p)
    \/ \E p \in Procs : SendStore(p)
    \/ \E p \in Procs : SendDispatch(p)
    \/ \E p \in Procs, uuid \in RandStrings : RedeemBegin(p, uuid, "p2", authMode, "none")
    \/ \E p \in Procs : RedeemStore(p)

SpecConc == Init /\ [][NextConc]_vars

\* logins and reset requests for known and unknown identities
NextEnum ==
    \/ \E username \in Usernames, email \in Emails, password \in Passwords :
          Register(username, email, password, 0, "none")
    \/ \E h \in Handles, principal \in Principals,
          password \in Passwords \cup {NoPassword}, err \in BOOLEAN :
          Login(h, principal, password, err)
    \/ \E email \in ResetEmails, fail \in {"none", "getuser"} :
          SendResetEmail(email, authMode, fail)
    \/ \E m \in AuthModes : SetAuthMode(m)

SpecEnum == Init /\ [][NextEnum]_vars

\* --------------------------------------------------------------- UserExists

\* the target strings a caller may pass, one of them not a column
Targets == {"username", "email", "realname", "uid"}
Realnames == { <<"r">> }

\* a models.User carrying the three identity fields UserExists looks at
Criteria(username, email, realname) ==
    [Username |-> username, Email |-> email, Realname |-> realname]

\* the first element of make([]interface{}, 1)
NilParam == << "<nil>" >>

\* no statement reached the store
NoQuery == [ran |-> FALSE]

\* the arguments the ORM binds: a slice argument is flattened and its nil
\* elements are dropped
FlatParams(queryParam) == SelectSeq(queryParam, LAMBDA x : x # NilParam)

\* a switch that takes the username filter whatever the target
TargetFilter_AlwaysUsername(user, target) ==
    [where |-> << "username" >>, queryParam |-> << NilParam, user.Username >>]

\* UserExists' switch: the conditions appended to "where 1=1" and the query
\* parameters
TargetFilter(user, target) ==
    IF target = "username"
    THEN [where |-> << "username" >>, queryParam |-> << NilParam, user.Username >>]
    ELSE IF target = "email"
    THEN [where |-> << "email" >>, queryParam |-> << NilParam, user.Email >>]
    ELSE IF target = "realname"
    THEN [where |-> << "realname" >>, queryParam |-> << NilParam, user.Realname >>]
    ELSE [where |-> << >>, queryParam |-> << NilParam >>]

\* the column a condition of the statement compares
Column(u, name) ==
    IF name = "username" THEN u.Username
    ELSE IF name = "email" THEN u.Email
    ELSE u.Realname

\* QueryRows: the number of rows that meet every condition of the statement
QueryRows(us, where, params) ==
    Cardinality({ i \in 1..Len(us) :
                    \A k \in 1..Len(where) : Column(us[i], where[k]) = params[k] })

\* a UserExists without the check for blank criteria
DaoUserExists_NoBlankCheck(us, user, target, fail) ==
    LET f == TargetFilter(user, target)
        params == FlatParams(f.queryParam)
        n == QueryRows(us, f.where, params)
    IN  [exist |-> n # 0, err |-> "",
         query |-> [ran |-> TRUE, where |-> f.where, params |-> params]]

\* dao.UserExists: what it returns, and the statement it ran
DaoUserExists(us, user, target, fail) ==
    IF user.Username = EmptyStr /\ user.Email = EmptyStr /\ user.Realname = EmptyStr
    THEN [exist |-> FALSE, err |-> "user name, email, and realname are blank",
          query |-> NoQuery]
    ELSE LET f == TargetFilter(user, target)
             params == FlatParams(f.queryParam)
             n == QueryRows(us, f.where, params)
             query == [ran |-> TRUE, where |-> f.where, params |-> params]
         IN  IF fail = "query" \/ Len(params) # Len(f.where)
             THEN [exist |-> FALSE, err |-> "db", query |-> query]
             ELSE [exist |-> n # 0, err |-> "", query |-> query]

\* the criteria the controller builds from the request's target and value
ControllerCriteria(target, value) ==
    IF target = "username" THEN Criteria(value, EmptyStr, EmptyStr)
    ELSE IF target = "email" THEN Criteria(EmptyStr, value, EmptyStr)
    ELSE Criteria(EmptyStr, EmptyStr, EmptyStr)

\* ServeJSON of a bool
ServeJSON(b) == IF b THEN "true" ELSE "false"

\* CommonController.UserExists
UserExists(target, value, fail) ==
    LET r == DaoUserExists(users, ControllerCriteria(target, value), target, fail)
    IN  /\ req' = [op |-> "UserExists", target |-> target, value |-> value,
                   fail |-> fail]
        /\ resp' = IF r.err # ""
                   THEN [code |-> StatusInternalServerError, body |-> "Internal error.",
                         query |-> r.query]
                   ELSE [code |-> StatusOK, body |-> ServeJSON(r.exist), query |-> r.query]
        /\ UNCHANGED << users, session, authMode, rand, mailbox, procs, granted,
                        written, secret >>

\* a call of dao.UserExists by another caller than the controller
CallUserExists(user, target, fail) ==
    LET r == DaoUserExists(users, user, target, fail)
    IN  /\ req' = [op |-> "dao.UserExists", user |-> user, target |-> target,
                   fail |-> fail]
        /\ resp' = [code |-> 0, body |-> "", exist |-> r.exist, err |-> r.err,
                    query |-> r.query]
        /\ UNCHANGED << users, session, authMode, rand, mailbox, procs, granted,
                        written, secret >>

\* the identity check, between registrations and OAuth exchanges
ValidTokens == { t \in AccessTokens : t.alg = SigningMethodHS256 /\ t.verifies }
NextExists ==
    \/ \E username \in Usernames, email \in Emails :
          Register(username, email, "p1", 0, "none")
    \/ \E h \in Handles, tok \in ValidTokens : Oauth(h, tok, "none")
    \/ \E target \in Targets, value \in Usernames \cup Emails \cup {EmptyStr, UnknownEmail},
          fail \in {"none", "query"} :
          UserExists(target, value, fail)
    \/ \E username \in {EmptyStr, <<"a">>}, email \in {EmptyStr, EmailA},
          realname \in {EmptyStr} \cup Realnames, target \in Targets,
          fail \in {"none", "query"} :
          CallUserExists(Criteria(username, email, realname), target, fail)

SpecExists == Init /\ [][NextExists]_vars

\* ------------------------------------------- session writes of concurrent requests

(***************************************************************************)
(* Requests that carry the same session cookie work on the same session.   *)
(* Login and Oauth write its three fields with three SetSession calls, and *)
(* the calls of requests in flight interleave.                             *)
(***************************************************************************)

\* Login up to the first SetSession
LoginBegin(p, h, principal, password, err) ==
    /\ procs[p].pc = "idle"
    /\ LET call == [op |-> "Login", h |-> h, principal |-> principal]
           user == IF err THEN NilUser ELSE AuthLogin(users, principal, password)
       IN  /\ procs' = [procs EXCEPT ![p] =
                          IF LoginAborts(user, err)
                          THEN call @@ [pc |-> "done", code |-> StatusUnauthorized]
                          ELSE call @@ [pc |-> "userId", user |-> user]]
           /\ granted' = [granted EXCEPT ![h] = @ \/ ~LoginAborts(user, err)]
    /\ UNCHANGED << users, session, authMode, rand, mailbox, req, resp, written,
                    secret >>

\* Oauth up to the first SetSession
OauthBegin(p, h, tok, fail) ==
    /\ procs[p].pc = "idle"
    /\ LET call == [op |-> "Oauth", h |-> h, tok |-> tok]
           early == OauthChecks(tok, fail)
           made == createUser(users, tok.sub, SprintfEmail(tok.sub, tok.iss), fail)
       IN  IF early.code # 0 \/ made.err
           THEN /\ procs' = [procs EXCEPT ![p] =
                               call @@ [pc |-> "done", code |-> StatusInternalServerError]]
                /\ UNCHANGED << users, granted >>
           ELSE /\ Len(made.users) <= MaxUsers
                /\ users' = made.users
                /\ granted' = [granted EXCEPT ![h] = TRUE]
                /\ procs' = [procs EXCEPT ![p] =
                               call @@ [pc |-> "userId", user |-> made.user]]
    /\ UNCHANGED << session, authMode, rand, mailbox, req, resp, written, secret >>

\* cc.SetSession("userId", user.UserID)
SetUserId(p) ==
    /\ procs[p].pc = "userId"
    /\ session' = [session EXCEPT ![procs[p].h] =
                     SetSession(@, "userId", procs[p].user.UserID)]
    /\ procs' = [procs EXCEPT ![p] = [pc |-> "username"] @@ @]
    /\ UNCHANGED << users, authMode, rand, mailbox, req, resp, granted, written,
                    secret >>

\* cc.SetSession("username", user.Username)
SetUsername(p) ==
    /\ procs[p].pc = "username"
    /\ session' = [session EXCEPT ![procs[p].h] =
                     SetSession(@, "username", procs[p].user.Username)]
    /\ procs' = [procs EXCEPT ![p] = [pc |-> "isSysAdmin"] @@ @]
    /\ UNCHANGED << users, authMode, rand, mailbox, req, resp, granted, written,
                    secret >>

\* cc.SetSession("isSysAdmin", user.HasAdminRole == 1), and the response
SetIsSysAdmin(p) ==
    /\ procs[p].pc = "isSysAdmin"
    /\ session' = [session EXCEPT ![procs[p].h] =
                     SetSession(@, "isSysAdmin", procs[p].user.HasAdminRole = AdminRole)]
    /\ Finish(p, [code |-> IF procs[p].op = "Oauth" THEN StatusFound ELSE StatusOK])
    /\ UNCHANGED << users, authMode, rand, mailbox, req, resp, granted, written,
                    secret >>

\* LogOut in a request of its own
LogOutRequest(p, h) ==
    /\ procs[p].pc = "idle"
    /\ session' = [session EXCEPT ![h] = DestroySession(@)]
    /\ granted' = [granted EXCEPT ![h] = FALSE]
    /\ procs' = [procs EXCEPT ![p] =
                   [pc |-> "done", op |-> "LogOut", h |-> h, code |-> StatusOK]]
    /\ UNCHANGED << users, authMode, rand, mailbox, req, resp, written, secret >>

NextSession ==
    \/ \E username \in Usernames, admin \in {0, AdminRole} :
          Register(username, SprintfEmail(username, CHOOSE iss \in Issuers : TRUE), "p1",
                   admin, "none")
    \/ \E p \in Procs, h \in Handles, principal \in Usernames :
          LoginBegin(p, h, principal, "p1", FALSE)
    \/ \E p \in Procs, h \in Handles, tok \in ValidTokens : OauthBegin(p, h, tok, "none")
    \/ \E p \in Procs : SetUserId(p)
    \/ \E p \in Procs : SetUsername(p)
    \/ \E p \in Procs : SetIsSysAdmin(p)
    \/ \E p \in Procs, h \in Handles : LogOutRequest(p, h)

SpecSession == Init /\ [][NextSession]_vars

\* =================================================================== properties

\* the session Session Issuance establishes for row i of the table
SessionOf(i) ==
    [userId |-> i, username |-> users[i].Username,
     isSysAdmin |-> (users[i].HasAdminRole = AdminRole)]

\* a Login or Oauth response that reports success
Succeeded(r) == r.code \in {StatusOK, StatusFound}

\* ----------------------------------------------------------------------- C1

C1Granted == \A h \in Handles : DOMAIN session[h] # {} => granted[h]

C1FailureSetsNothing ==
    (req'.op \in {"Login", "Oauth"} /\ ~Succeeded(resp')) => session' = session

C1LogOutRemoves == req'.op = "LogOut" => session'[req'.h] = EmptySession

C2_RegisterThenLogin ==
    /\ (req.op = "Register" /\ resp.userID # 0) =>
           /\ resp.userID \in 1..Len(users)
           /\ users[resp.userID].UserID = resp.userID
           /\ users[resp.userID].Username = req.username
           /\ users[resp.userID].HasAdminRole = req.admin
           /\ secret[resp.userID] = [pw |-> req.password, by |-> "register",
                                     old |-> NoPassword, uuid |-> NoString]
    /\ req.op = "Login" =>
           \A i \in 1..Len(users) :
               (users[i].Username = req.principal /\ secret[i].by = "register") =>
                   IF req.password = secret[i].pw /\ ~req.err
                   THEN resp.code = StatusOK /\ session[req.h] = SessionOf(i)
                   ELSE resp.code = StatusUnauthorized

\* an administrator who registered has logged in with the registered password
C2_Witness ==
    /\ req.op = "Login"
    /\ resp.code = StatusOK
    /\ \E i \in 1..Len(users) :
           /\ users[i].Username = req.principal
           /\ secret[i].by = "register"
           /\ secret[i].pw = req.password
           /\ users[i].HasAdminRole = AdminRole
           /\ session[req.h] = SessionOf(i)

\* ----------------------------------------------------------------------- C3

\* the Register calls made for a username, those that returned an id and those
\* that returned the store's uniqueness error
RegCalls(n) == {p \in Procs : procs[p].op = "Register" /\ procs[p].username = n}
RegWon(n) == {p \in RegCalls(n) : procs[p].pc = "done" /\ procs[p].userID # 0}
RegLost(n) == {p \in RegCalls(n) : procs[p].pc = "done" /\ procs[p].err = "duplicate"}
RowsNamed(n) == {i \in 1..Len(users) : users[i].Username = n}

\* every call for the username has returned, none on a database failure, and no
\* row of another username holds an e-mail address one of them asked for
RegSettled(n) ==
    /\ RegCalls(n) # {}
    /\ \A p \in RegCalls(n) : procs[p].pc = "done" /\ procs[p].err # "db"
    /\ \A i \in 1..Len(users) :
           users[i].Username # n => \A p \in RegCalls(n) : users[i].Email # procs[p].email

\* C3: of the Register calls made concurrently for one username at most one
\* returns an id and at most one row is stored; once all of them have returned
\* without a database failure exactly one has succeeded and every other one got
\* the store's uniqueness error.
C3_OneRegistrationWins ==
    \A n \in Usernames :
        /\ Cardinality(RegWon(n)) <= 1
        /\ Cardinality(RowsNamed(n)) <= 1
        /\ \A p \in RegWon(n) : RowsNamed(n) = {procs[p].userID}
        /\ RegSettled(n) =>
               /\ Cardinality(RegWon(n)) = 1
               /\ RegLost(n) = RegCalls(n) \ RegWon(n)

\* three calls for one username had all drawn their salt before the first
\* insert; one of them got the row and the two others the uniqueness error
C3_Witness ==
    \E n \in Usernames :
        /\ RegCalls(n) = Procs
        /\ RegSettled(n)
        /\ Cardinality(RegWon(n)) = 1
        /\ Cardinality(RegLost(n)) = NProcs - 1
        /\ \A p \in RegLost(n) : \E q \in RegWon(n) : procs[p].salt < procs[q].salt

\* ----------------------------------------------------------------------- C4

\* the response the OAuth exchange gives for an invalid token
InvalidToken ==
    [code |-> StatusInternalServerError, body |-> "error parsing oauth response"]

C4Rejected ==
    (req'.op = "Oauth" /\ req'.tok.alg \notin {SigningMethodHS256, NoToken.alg}) =>
        /\ resp' = InvalidToken
        /\ users' = users
        /\ session' = session

\* C4: Oauth rejects every access token whose signing method is not HS256 with
\* InvalidToken, and then no user is onboarded and no session field is set.
C4_AlgorithmRejected == [][C4Rejected]_vars

\* a token signed with another method, whose signature verifies, was rejected
C4_Witness ==
    /\ req.op = "Oauth"
    /\ req.tok.alg = "HS512"
    /\ req.tok.verifies
    /\ resp = InvalidToken
    /\ session[req.h] = EmptySession

\* ----------------------------------------------------------------------- C5

\* row i got its password by redeeming a token that a successful request mailed
ResetByMail(i) ==
    /\ secret[i].by = "reset"
    /\ [to |-> users[i].Email, uuid |-> secret[i].uuid] \in mailbox

\* C5 as stated: after a successful request and a successful redeem with a
\* non-empty new password, login by username or e-mail with the new password
\* succeeds and login with the old password fails.
C5_RoundTripAsStated ==
    req.op = "Login" =>
        \A i \in 1..Len(users) :
            (req.principal \in {users[i].Username, users[i].Email} /\ ResetByMail(i)) =>
                /\ req.password = secret[i].pw =>
                       resp.code = StatusOK /\ session[req.h] = SessionOf(i)
                /\ req.password = secret[i].old => resp.code = StatusUnauthorized

\* C5, amended: after a successful request and a successful redeem with a
\* non-empty new password, login by username or e-mail with the new password
\* succeeds, and login with the old password fails when the new password
\* differs from the old one.
C5_RoundTrip ==
    req.op = "Login" =>
        \A i \in 1..Len(users) :
            (req.principal \in {users[i].Username, users[i].Email} /\ ResetByMail(i)) =>
                /\ secret[i].pw # NoPassword
                /\ req.password = secret[i].pw =>
                       resp.code = StatusOK /\ session[req.h] = SessionOf(i)
                /\ (req.password = secret[i].old /\ secret[i].old # secret[i].pw) =>
                       resp.code = StatusUnauthorized

\* a user logged in by e-mail with the password set through a mailed token
C5_Witness ==
    /\ req.op = "Login"
    /\ resp.code = StatusOK
    /\ \E i \in 1..Len(users) :
           /\ req.principal = users[i].Email
           /\ ResetByMail(i)
           /\ req.password = secret[i].pw
           /\ secret[i].old \notin {secret[i].pw, NoPassword}

\* ----------------------------------------------------------------------- C6

\* the token was redeemed before this step
RedeemedBefore(uuid) ==
    \E i \in 1..Len(users) : secret[i].by = "reset" /\ secret[i].uuid = uuid

C6SecondRedeem == req'.op = "ResetPassword" /\ req'.fail = "none" /\ RedeemedBefore(req'.uuid)

\* C6: after a successful redeem the token is cleared, so a second redeem with
\* the same token finds no user and fails NotFound without changing any password.
C6_SecondRedeemNotFound ==
    [][C6SecondRedeem => (resp'.code = StatusNotFound /\ users' = users)]_vars

\* what the handler does on a second redeem: it answers 400 "User does not
\* exist" and leaves the table as it is
C6_SecondRedeemRefused ==
    [][C6SecondRedeem =>
          /\ resp'.code = StatusBadRequest
          /\ resp'.body = "User does not exist"
          /\ users' = users]_vars

\* ----------------------------------------------------------------------- C7

\* a redeem with token t would find row i
Redeemable(i, t) ==
    /\ t # NoString
    /\ GetUser(users, Query(0, EmptyStr, EmptyStr, t)) = users[i]

\* the token of the last store update made for row i
LastWritten(i) == written[i][Len(written[i])]

\* C7: under every interleaving of reset requests a user has at most one
\* redeemable token, and it is the one the last store update wrote: no token
\* written earlier redeems.
C7_OneRedeemableToken ==
    \A i \in 1..Len(users) :
        /\ Cardinality({t \in RandStrings : Redeemable(i, t)}) <= 1
        /\ \A t \in RandStrings :
               Redeemable(i, t) => (written[i] # << >> /\ t = LastWritten(i))
        /\ \A k \in 1..(Len(written[i]) - 1) :
               written[i][k] # LastWritten(i) => ~Redeemable(i, written[i][k])

\* two requests for one user overlapped: the token generated first was stored
\* last, and it is the one that redeems
C7_Witness ==
    \E i \in 1..Len(users) :
        /\ Len(written[i]) = 2
        /\ written[i][2] < written[i][1]
        /\ Redeemable(i, written[i][2])
        /\ ~Redeemable(i, written[i][1])

\* ----------------------------------------------------------------------- C8

\* the request names a user who is not the bootstrap account while the
\* configured mode is not the local one, and the lookup does not fail
C8Ineligible ==
    /\ req'.op = "SendResetEmail"
    /\ req'.fail # "getuser"
    /\ MatchString(req'.email)
    /\ authMode # DBAuth
    /\ \E i \in 1..Len(users) : users[i].Email = req'.email /\ i # BootstrapUserID

\* C8: a reset request for a user who is not eligible fails Forbidden and leaves
\* the user's resetUUID unchanged; no token is generated or stored and no e-mail
\* is dispatched.
C8_IneligibleRequestForbidden ==
    [][C8Ineligible =>
          /\ resp'.code = StatusForbidden
          /\ users' = users
          /\ rand' = rand
          /\ written' = written
          /\ mailbox' = mailbox]_vars

\* a request for the second user was refused under the federated mode, which
\* was read without error
C8_Witness ==
    /\ req.op = "SendResetEmail"
    /\ resp.code = StatusForbidden
    /\ authMode = LDAPAuth
    /\ resp.check.mode = LDAPAuth
    /\ Len(users) = 2
    /\ users[2].Email = req.email

\* ----------------------------------------------------------------------- C9

\* a token held by a user who is not the bootstrap account is redeemed while
\* the configured mode is not the local one, and the lookup does not fail
C9Ineligible ==
    /\ req'.op = "ResetPassword"
    /\ req'.fail # "getuser"
    /\ req'.uuid # NoString
    /\ authMode # DBAuth
    /\ \E i \in 1..Len(users) : users[i].ResetUUID = req'.uuid /\ i # BootstrapUserID

\* C9: redeem checks eligibility again: once the mode is no longer the local
\* one, redeeming a valid token of a user who is not the bootstrap account
\* fails Forbidden, and the user's password hash and resetUUID are unchanged.
C9_RedeemRechecksEligibility ==
    [][C9Ineligible => (resp'.code = StatusForbidden /\ users' = users)]_vars

\* the second user's token, issued under the local mode, was refused with a
\* new password under the federated mode
C9_Witness ==
    /\ req.op = "ResetPassword"
    /\ req.password # NoPassword
    /\ resp.code = StatusForbidden
    /\ authMode = LDAPAuth
    /\ resp.check.mode = LDAPAuth
    /\ Len(users) = 2
    /\ users[2].ResetUUID = req.uuid

\* ---------------------------------------------------------------------- C10

\* the last request called isUserResetable
CheckCalled == req.op \in {"SendResetEmail", "ResetPassword"} /\ resp.check.called

\* C10 as stated: isUserResetable returns true exactly when the configured mode
\* is the local one or the user is the bootstrap account, whatever the outcome
\* of reading the mode.
C10_EligibilityAsStated ==
    CheckCalled =>
        (resp.check.result <=> (authMode = DBAuth \/ resp.check.uid = BootstrapUserID))

\* C10, amended: isUserResetable returns true exactly when the mode was read
\* without error and it is the local one or the user is the bootstrap account;
\* when reading the mode fails it returns false for every user, the bootstrap
\* account included.
C10_Eligibility ==
    CheckCalled =>
        /\ resp.check.mode \in {authMode, ModeErr}
        /\ resp.check.result <=>
               /\ resp.check.mode # ModeErr
               /\ resp.check.mode = DBAuth \/ resp.check.uid = BootstrapUserID

\* the bootstrap account was found eligible under the federated mode
C10_Witness ==
    /\ CheckCalled
    /\ resp.check.uid = BootstrapUserID
    /\ resp.check.mode = LDAPAuth
    /\ resp.check.result

\* ---------------------------------------------------------------------- C11

\* the rows of a table that carry the username
RowsOf(us, n) == {i \in 1..Len(us) : us[i].Username = n}

\* the step completes an OAuth exchange
C11Completed == req'.op = "Oauth" /\ resp'.code = StatusFound

C11Onboarded ==
    C11Completed =>
        LET sub == req'.tok.sub
            iss == req'.tok.iss
        IN  /\ Cardinality(RowsOf(users', sub)) = 1
            /\ IF RowsOf(users, sub) = {}
               THEN /\ Len(users') = Len(users) + 1
                    /\ SubSeq(users', 1, Len(users)) = users
                    /\ users'[Len(users')].Username = sub
                    /\ users'[Len(users')].Email = sub \o AtSign \o iss
               ELSE users' = users
            /\ \A i \in RowsOf(users', sub) : session'[req'.h] = SessionOf(i)'

\* C11: an OAuth exchange completed with a validly signed token for a subject
\* that has no user creates exactly one user, with the subject as username and
\* subject@issuer as e-mail address, and a session for it; completed for a
\* subject that has a user it creates no user and issues the session with
\* that user's id.
C11_OnboardingIdempotent == [][C11Onboarded]_vars

\* the exchange was completed again for a subject onboarded earlier: its row,
\* which has no local password, is older than the latest row of the table, and
\* the session carries its id
C11_Witness ==
    /\ req.op = "Oauth"
    /\ resp.code = StatusFound
    /\ \E i \in RowsOf(users, req.tok.sub) :
           /\ i < Len(users)
           /\ users[i].Password = NoHash
           /\ users[i].Email = SprintfEmail(req.tok.sub, req.tok.iss)
           /\ RowsOf(users, req.tok.sub) = {i}
           /\ session[req.h] = SessionOf(i)

\* ---------------------------------------------------------------------- C12

\* some stored user has the value in the field the target names
Stored(target, value) ==
    \E i \in 1..Len(users) :
        \/ target = "username" /\ users[i].Username = value
        \/ target = "email" /\ users[i].Email = value
        \/ target = "realname" /\ users[i].Realname = value

C12Asked ==
    /\ req'.op = "UserExists"
    /\ req'.target \in {"username", "email"}
    /\ req'.value # EmptyStr
    /\ req'.fail = "none"

\* C12: the identity check for the field username or email and a non-empty
\* value answers true exactly when some stored user has that field equal to the
\* value: false as long as no user with the value is stored, true afterwards.
C12_ExistsIffStored ==
    [][C12Asked =>
          /\ resp'.code = StatusOK
          /\ resp'.body = IF Stored(req'.target, req'.value) THEN "true" ELSE "false"]_vars

\* the check answered true for the e-mail address of a registered user
C12_Witness ==
    /\ req.op = "UserExists"
    /\ req.target = "email"
    /\ resp.code = StatusOK
    /\ resp.body = "true"
    /\ \E i \in 1..Len(users) : users[i].Email = req.value /\ secret[i].by = "register"

\* ---------------------------------------------------------------------- C13

BlankCriteria(user) ==
    user.Username = EmptyStr /\ user.Email = EmptyStr /\ user.Realname = EmptyStr

C13Dao ==
    (req'.op = "dao.UserExists" /\ BlankCriteria(req'.user)) =>
        /\ resp'.err # ""
        /\ resp'.err # "db"
        /\ resp'.query = NoQuery

C13Controller ==
    (/\ req'.op = "UserExists"
     /\ (req'.value = EmptyStr \/ req'.target \notin {"username", "email"})) =>
        /\ resp'.code = StatusInternalServerError
        /\ resp'.body \notin {"true", "false"}
        /\ resp'.query = NoQuery

\* C13: UserExists returns its own error, without running a statement on the
\* store, whenever username, email and realname of the criteria are all empty,
\* and the controller answers such a request with an error, not with false.
C13_BlankCriteriaRejected == [][C13Dao /\ C13Controller]_vars

\* with users stored, a check for an empty e-mail address was answered with an
\* error and no statement ran
C13_Witness ==
    /\ req.op = "UserExists"
    /\ req.target = "email"
    /\ req.value = EmptyStr
    /\ req.fail = "none"
    /\ Len(users) > 0
    /\ resp.code = StatusInternalServerError
    /\ resp.query = NoQuery

\* ---------------------------------------------------------------------- C14

\* what a caller sees of a response
Visible(r) == [code |-> r.code, body |-> r.body]

\* the principal of the request names no stored user
UnknownPrincipal ==
    \A i \in 1..Len(users) :
        users[i].Username # req'.principal /\ users[i].Email # req'.principal

\* what a caller sees of a reset request for the address of a stored user when
\* nothing outside the program fails: the mail was sent, or the user is not
\* eligible
KnownEmailResponses ==
    { [code |-> StatusOK, body |-> ""], [code |-> StatusForbidden, body |-> "Forbidden"] }

\* the reset request names a well-formed address of no stored user and the
\* lookup does not fail
C14UnknownEmail ==
    /\ req'.op = "SendResetEmail"
    /\ req'.fail = "none"
    /\ MatchString(req'.email)
    /\ \A i \in 1..Len(users) : users[i].Email # req'.email

\* a failed Login is answered in one way, whether the principal is unknown or
\* the password is wrong
C14LoginUniform ==
    (req'.op = "Login" /\ ~Succeeded(resp')) =>
        Visible(resp') = [code |-> StatusUnauthorized, body |-> ""]

\* C14: responses do not enable account enumeration: Login answers an unknown
\* principal and a wrong password with the same Unauthorized response, and a
\* reset request for a well-formed address of no user gets a response that a
\* request for a registered address gets too.
C14_NoEnumeration ==
    [][/\ C14LoginUniform
       /\ C14UnknownEmail => Visible(resp') \in KnownEmailResponses]_vars

\* what the handlers do: failed logins are uniform, and a reset request for an
\* unknown address is answered 404 "email_does_not_exist"
C14_UnknownEmailRevealed ==
    [][/\ C14LoginUniform
       /\ C14UnknownEmail =>
              Visible(resp') = [code |-> StatusNotFound, body |-> "email_does_not_exist"]]_vars

\* ---------------------------------------------------------------------- C15

\* the failures of SendResetEmail that come after the token was stored
DispatchFailures == {"template", "endpoint", "execute", "emailcfg", "send"}

\* a reset request passed its checks and then failed to build or send the mail:
\* the error is reported, nothing is mailed, and the new token is on the user's
\* row, where a lookup by token finds it
C15FailedDispatch ==
    (/\ req'.op = "SendResetEmail"
     /\ req'.fail \in DispatchFailures
     /\ resp'.check.called
     /\ resp'.check.result) =>
        /\ resp'.code = StatusInternalServerError
        /\ mailbox' = mailbox
        /\ rand' = rand + 1
        /\ \E i \in 1..Len(users) :
               /\ users[i].Email = req'.email
               /\ users'[i].ResetUUID = rand'
               /\ GetUser(users', Query(0, EmptyStr, EmptyStr, rand')) = users'[i]

\* a stored token changes only by the next request for the same address or by
\* its redemption
C15TokenKept ==
    \A i \in 1..Len(users) :
        users'[i].ResetUUID # users[i].ResetUUID =>
            \/ req'.op = "SendResetEmail" /\ req'.email = users[i].Email
            \/ req'.op = "ResetPassword" /\ req'.uuid = users[i].ResetUUID

\* a redeem with a stored token, a password and an eligible user succeeds,
\* whether or not the token was mailed
C15Redeems ==
    (/\ req'.op = "ResetPassword"
     /\ req'.fail = "none"
     /\ req'.password # NoPassword
     /\ resp'.check.called
     /\ resp'.check.result) =>
        /\ resp'.code = StatusOK
        /\ \A i \in 1..Len(users) :
               users[i].ResetUUID = req'.uuid =>
                   users'[i].Password = Encrypt(req'.password, users'[i].Salt)

\* C15: SendResetEmail stores the token before it builds and sends the mail: if
\* the template, the configuration or the dispatch fails after that, the caller
\* gets the error and the stored token stays redeemable until the next request
\* for the user overwrites it.
C15_TokenPersistedBeforeDispatch ==
    [][C15FailedDispatch /\ C15TokenKept /\ C15Redeems]_vars

\* a token that was stored but never mailed has been redeemed
C15_Witness ==
    /\ req.op = "ResetPassword"
    /\ resp.code = StatusOK
    /\ \E i \in 1..Len(users) :
           /\ secret[i].by = "reset"
           /\ secret[i].uuid = req.uuid
           /\ written[i] # << >>
           /\ written[i][Len(written[i])] = req.uuid
    /\ \A m \in mailbox : m.uuid # req.uuid

\* ---------------------------------------------------------------------- C16

\* the rows that hold the token of the request
HoldersOf(uuid) == {i \in 1..Len(users) : users[i].ResetUUID = uuid}

\* an empty token is refused before the lookup: a failing store makes no
\* difference
C16EmptyToken ==
    (req'.op = "ResetPassword" /\ req'.uuid = NoString) =>
        /\ resp'.code = StatusBadRequest
        /\ resp'.body = "Reset uuid is blank."
        /\ resp'.check = NoCall
        /\ users' = users

\* an empty password for an eligible user is refused and the row stays as it is
C16EmptyPassword ==
    (/\ req'.op = "ResetPassword"
     /\ req'.uuid # NoString
     /\ req'.fail # "getuser"
     /\ req'.password = NoPassword
     /\ HoldersOf(req'.uuid) # {}
     /\ resp'.check.called
     /\ resp'.check.result) =>
        /\ resp'.code = StatusBadRequest
        /\ resp'.body = "password_is_required"
        /\ users' = users
        /\ \A i \in HoldersOf(req'.uuid) :
               GetUser(users', Query(0, EmptyStr, EmptyStr, req'.uuid)) = users[i]

\* an empty password for a user who is not eligible is refused as Forbidden
C16Ineligible ==
    (/\ req'.op = "ResetPassword"
     /\ req'.uuid # NoString
     /\ req'.fail # "getuser"
     /\ req'.password = NoPassword
     /\ HoldersOf(req'.uuid) # {}
     /\ authMode # DBAuth
     /\ BootstrapUserID \notin HoldersOf(req'.uuid)) =>
        /\ resp'.code = StatusForbidden
        /\ users' = users

\* C16: ResetPassword refuses an empty token with BadRequest before any lookup,
\* refuses an empty password with BadRequest leaving the user's hash, salt and
\* token unchanged, so that the token stays redeemable, and checks eligibility
\* before the password: an ineligible user with an empty password gets
\* Forbidden.
C16_RedeemCheckOrder == [][C16EmptyToken /\ C16EmptyPassword /\ C16Ineligible]_vars

\* a redeem without a password was refused as Forbidden for a user who holds the
\* token and is not eligible
C16_Witness ==
    /\ req.op = "ResetPassword"
    /\ req.password = NoPassword
    /\ resp.code = StatusForbidden
    /\ authMode = LDAPAuth
    /\ \E i \in HoldersOf(req.uuid) : i # BootstrapUserID

\* ---------------------------------------------------------------------- C17

\* the value the criteria carry for the field the target names
CriteriaValue(user, target) ==
    IF target = "username" THEN user.Username
    ELSE IF target = "email" THEN user.Email
    ELSE user.Realname

\* the criteria of the step's request, by either way of calling UserExists
C17Criteria ==
    IF req'.op = "UserExists" THEN ControllerCriteria(req'.target, req'.value)
    ELSE req'.user

\* UserExists returned without error
C17Returned ==
    \/ req'.op = "UserExists" /\ resp'.code = StatusOK
    \/ req'.op = "dao.UserExists" /\ resp'.err = ""

C17Answer == IF req'.op = "UserExists" THEN resp'.body = "true" ELSE resp'.exist

\* the statement was filtered on the target field, and the answer is true only
\* if a stored user has the criteria's value in it
C17Filtered ==
    /\ resp'.query.ran
    /\ resp'.query.where = << req'.target >>
    /\ C17Answer => Stored(req'.target, CriteriaValue(C17Criteria, req'.target))

\* C17: UserExists never runs an unconstrained lookup: whenever it returns
\* without error its statement was filtered on the target field, so it answers
\* true only if a stored user's target field equals the criteria's value for
\* it, for every target string and whichever fields of the criteria are set.
C17_NeverUnconstrained == [][C17Returned => C17Filtered]_vars

\* what UserExists does: it filters on the target when the target is one of
\* username, email and realname, and through the controller always
C17_KnownTargetsFiltered ==
    [][(/\ C17Returned
        /\ req'.op = "UserExists" \/ req'.target \in {"username", "email", "realname"})
          => C17Filtered]_vars

\* what UserExists does for another target when some field of the criteria is
\* set: it runs the statement without a condition and answers whether the table
\* has a row
C17_OtherTargetUnconstrained ==
    [][(/\ req'.op = "dao.UserExists"
        /\ req'.fail = "none"
        /\ req'.target \notin {"username", "email", "realname"}
        /\ ~BlankCriteria(req'.user))
          => /\ resp'.err = ""
             /\ resp'.query.ran
             /\ resp'.query.where = << >>
             /\ resp'.exist = (Len(users) > 0)]_vars

\* ---------------------------------------------------------------------- C18

\* the fields a session holds are those of row i
DescribesUser(s, i) == \A k \in DOMAIN s : s[k] = SessionOf(i)[k]

C18Consistent ==
    \A h \in Handles :
        DOMAIN session[h] # {} => \E i \in 1..Len(users) : DescribesUser(session[h], i)

\* C18: in every reachable state the fields userId, username and isSysAdmin of a
\* session describe one and the same user, also when two Login or Oauth
\* requests for different users on one session handle interleave their three
\* field writes and when LogOut interleaves with them.
C18_SessionDescribesOneUser == C18Consistent

\* what holds when a LogOut comes between the writes of one authentication: the
\* fields written after it stay, without a userId, and still belong to one user
C18_SingleWriterConsistent ==
    Cardinality({p \in Procs : procs[p].op \in {"Login", "Oauth"}}) <= 1 => C18Consistent

\* ---------------------------------------------------------------------- C19

\* the step stores, generates and mails nothing
C19NothingStored ==
    /\ users' = users
    /\ rand' = rand
    /\ written' = written
    /\ mailbox' = mailbox

\* the rows that carry the address of the request
RowsWithEmail(email) == {i \in 1..Len(users) : users[i].Email = email}

\* an address that does not match is refused first, before the lookup: a
\* failing store makes no difference
C19InvalidEmail ==
    (req'.op = "SendResetEmail" /\ ~MatchString(req'.email)) =>
        /\ Visible(resp') = [code |-> StatusBadRequest, body |-> "invalid email"]
        /\ C19NothingStored

C19NoUser ==
    (/\ req'.op = "SendResetEmail"
     /\ MatchString(req'.email)
     /\ req'.fail # "getuser"
     /\ RowsWithEmail(req'.email) = {}) =>
        /\ resp'.code = StatusNotFound
        /\ resp'.check = NoCall
        /\ C19NothingStored

C19Ineligible ==
    (/\ req'.op = "SendResetEmail"
     /\ MatchString(req'.email)
     /\ req'.fail # "getuser"
     /\ RowsWithEmail(req'.email) # {}
     /\ authMode # DBAuth
     /\ BootstrapUserID \notin RowsWithEmail(req'.email)) =>
        /\ resp'.code = StatusForbidden
        /\ C19NothingStored

\* a token is generated and written only after the three checks passed, it is
\* one that was never written before, and it goes to the user's row alone
C19StoredAfterChecks ==
    (req'.op = "SendResetEmail" /\ ~C19NothingStored) =>
        /\ MatchString(req'.email)
        /\ RowsWithEmail(req'.email) # {}
        /\ resp'.check.called /\ resp'.check.result
        /\ rand' = rand + 1
        /\ \A i \in 1..Len(users) : \A k \in 1..Len(written[i]) : written[i][k] # rand'
        /\ req'.fail # "update" =>
               \A i \in 1..Len(users) :
                   users'[i] = IF i \in RowsWithEmail(req'.email)
                               THEN [users[i] EXCEPT !.ResetUUID = rand']
                               ELSE users[i]

\* C19: SendResetEmail makes its checks in a fixed order and stops at the first
\* failure with nothing stored: an address that does not match gets BadRequest
\* without a lookup, a matching address of no user NotFound, a user who is not
\* eligible Forbidden; only after all three passed is a fresh token generated
\* and written as that user's resetUUID.
C19_RequestCheckOrder ==
    [][C19InvalidEmail /\ C19NoUser /\ C19Ineligible /\ C19StoredAfterChecks]_vars

\* with users stored and the store failing at a lookup, an address that does
\* not match was refused as BadRequest
C19_Witness ==
    /\ req.op = "SendResetEmail"
    /\ req.email \in BadEmails
    /\ req.fail = "getuser"
    /\ resp.code = StatusBadRequest
    /\ Len(users) > 0
    /\ \E i \in 1..Len(users) : written[i] # << >>

=============================================================================
